---------------------------- MODULE Spec2Model ----------------------------
(***************************************************************************)
(* Lecture Canvas plugin (src/main.ts): the lecture prompt, the settings   *)
(* tab, the write sequence of writeLectureCanvas and the helpers it uses.  *)
(*                                                                         *)
(* Text of the plugin is a string; a code unit outside ASCII is spelled    *)
(* U+XXXX in it (it reaches no operation that looks at single characters). *)
(* slugify and toLowerCase work on the sequence of the UTF-16 code units   *)
(* of a text, each a one-letter string, or "U+XXXX" outside ASCII.         *)
(***************************************************************************)
EXTENDS Integers, Sequences, FiniteSets, TLC

(***************************************************************************)
(* Bounds of the model.                                                    *)
(***************************************************************************)
\* longest typed tail after the padding, in the slugify harness
MaxTail == 3

(***************************************************************************)
(* Characters.                                                             *)
(***************************************************************************)
LowerLetters ==
  <<"a","b","c","d","e","f","g","h","i","j","k","l","m",
    "n","o","p","q","r","s","t","u","v","w","x","y","z">>

UpperLetters ==
  <<"A","B","C","D","E","F","G","H","I","J","K","L","M",
    "N","O","P","Q","R","S","T","U","V","W","X","Y","Z">>

Digits == {"0","1","2","3","4","5","6","7","8","9"}

Range(f) == {f[i] : i \in DOMAIN f}

Capitals == Range(UpperLetters)

Min(a, b) == IF a < b THEN a ELSE b

\* the code units of an ASCII text, and the text of ASCII code units
Units(s) == [i \in 1..Len(s) |-> SubSeq(s, i, i)]

RECURSIVE Text(_)
Text(u) == IF u = <<>> THEN "" ELSE Head(u) \o Text(Tail(u))

\* String.prototype.toLowerCase on one code unit: ASCII capitals, and the
\* capitals whose lower case is ASCII or longer than one unit
\* (U+212A KELVIN SIGN -> k, U+0130 -> i U+0307, U+00C9 -> U+00E9).
LowerOfChar(c) ==
  IF c \in Capitals
    THEN <<LowerLetters[CHOOSE i \in DOMAIN UpperLetters : UpperLetters[i] = c]>>
    ELSE CASE c = "U+212A" -> <<"k">>
           [] c = "U+0130" -> <<"i", "U+0307">>
           [] c = "U+00C9" -> <<"U+00E9">>
           [] OTHER -> <<c>>

RECURSIVE toLowerCase(_)
toLowerCase(s) ==
  IF s = <<>> THEN <<>> ELSE LowerOfChar(Head(s)) \o toLowerCase(Tail(s))

\* the class [a-z0-9\- ] of the first replace
SlugAllowed == Range(LowerLetters) \cup Digits \cup {"-", " "}

\* the class \s of the second replace
WhiteSpace == {" ", "U+0009", "U+000A", "U+000D", "U+00A0", "U+2028"}

\* s.replace(/[^...]/g, "")
RemoveOutside(s, class) == SelectSeq(s, LAMBDA c : c \in class)

\* s.replace(/X+/g, rep): every maximal run of characters of class becomes rep
RECURSIVE ReplaceRuns(_, _, _)
ReplaceRuns(s, class, rep) ==
  IF s = <<>> THEN <<>>
  ELSE IF Head(s) \in class
    THEN IF Len(s) > 1 /\ s[2] \in class
           THEN ReplaceRuns(Tail(s), class, rep)
           ELSE rep \o ReplaceRuns(Tail(s), class, rep)
    ELSE <<Head(s)>> \o ReplaceRuns(Tail(s), class, rep)

\* s.slice(0, n)
Slice0(s, n) == SubSeq(s, 1, Min(Len(s), n))

\* the length slugify cuts to
SliceLen == 64

\* a slugify that does not cut its result
slugifyUncut(s) ==
  ReplaceRuns(ReplaceRuns(RemoveOutside(toLowerCase(s), SlugAllowed),
                          WhiteSpace, <<"-">>),
              {"-"}, <<"-">>)

\* a slugify that collapses hyphens before it turns whitespace into hyphens
slugifySwapped(s) ==
  Slice0(ReplaceRuns(ReplaceRuns(RemoveOutside(toLowerCase(s), SlugAllowed),
                                 {"-"}, <<"-">>),
                     WhiteSpace, <<"-">>),
         SliceLen)

slugify(s) ==
  Slice0(ReplaceRuns(ReplaceRuns(RemoveOutside(toLowerCase(s), SlugAllowed),
                                 WhiteSpace, <<"-">>),
                     {"-"}, <<"-">>),
         SliceLen)

(***************************************************************************)
(* Text constants of the source.                                           *)
(***************************************************************************)
TxtLectures ==
  "Lectures"

TxtPluginId ==
  "obsidian-excalidraw-plugin"

(***************************************************************************)
(* Text the user types and the day the prompt opens on.                    *)
(***************************************************************************)
TxtToday ==
  "2024-03-05"

TxtOtherDay ==
  "2024-03-06"

TxtECE2711 ==
  "ECE2711"

TxtRLTitle ==
  "RL Frequency Response"

TxtExampleFolder ==
  "Lectures/ECE2711/2024-03-05 rl-frequency-response"

(***************************************************************************)
(* String helpers.                                                         *)
(***************************************************************************)
\* String.prototype.trim
RECURSIVE TrimStart(_)
TrimStart(s) ==
  IF s # "" /\ Head(s) \in WhiteSpace THEN TrimStart(Tail(s)) ELSE s

RECURSIVE TrimEnd(_)
TrimEnd(s) ==
  IF s # "" /\ SubSeq(s, Len(s), Len(s)) \in WhiteSpace
    THEN TrimEnd(SubSeq(s, 1, Len(s) - 1)) ELSE s

trim(s) == TrimEnd(TrimStart(s))

startsWith(s, prefix) ==
  Len(s) >= Len(prefix) /\ SubSeq(s, 1, Len(prefix)) = prefix

endsWith(s, suffix) ==
  Len(s) >= Len(suffix) /\ SubSeq(s, Len(s) - Len(suffix) + 1, Len(s)) = suffix

\* sub occurs in s at position i
OccursAt(s, sub, i) ==
  i >= 1 /\ i + Len(sub) - 1 <= Len(s) /\ SubSeq(s, i, i + Len(sub) - 1) = sub

(***************************************************************************)
(* Numbers of the layout: a finite number, an infinity, or JSON's null.    *)
(***************************************************************************)
Num(n) == [t |-> "num", v |-> n]

Infinity == [t |-> "inf", v |-> 1]

NaN == [t |-> "nan", v |-> 0]

JsonNull == [t |-> "null", v |-> 0]

\* Number(v) of the text of a layout field (main.ts:573)
NumberOf(v) ==
  CASE v = "" -> Num(0)
    [] v = "0" -> Num(0)
    [] v = "40" -> Num(40)
    [] v = "-40" -> Num(0 - 40)
    [] v = "1e999" -> Infinity
    [] v = "Infinity" -> Infinity
    [] OTHER -> NaN

\* JSON.stringify of a number: a number that is not finite is written null
JsonNumber(n) == IF n.t = "num" THEN n ELSE JsonNull

Rect(x, y, w, h) == [x |-> Num(x), y |-> Num(y), width |-> Num(w), height |-> Num(h)]

JsonRect(r) ==
  [x |-> JsonNumber(r.x), y |-> JsonNumber(r.y),
   width |-> JsonNumber(r.width), height |-> JsonNumber(r.height)]

(***************************************************************************)
(* Settings.                                                               *)
(***************************************************************************)
DEFAULT_SETTINGS ==
  [rootFolder |-> TxtLectures,
   defaultCourse |-> "",
   excalidrawCheck |-> TRUE,
   node |-> [meta |-> Rect(0, 0, 1450, 300),
             slides |-> Rect(0, 350, 600, 600),
             excalidraw |-> Rect(650, 350, 800, 600)]]

\* JSON.stringify then JSON.parse of the settings: what saveData keeps
JsonSettings(s) ==
  [s EXCEPT !.node = [meta |-> JsonRect(s.node.meta),
                      slides |-> JsonRect(s.node.slides),
                      excalidraw |-> JsonRect(s.node.excalidraw)]]

\* what data.json can hold when the plugin loads: nothing, or settings the
\* plugin saved in an earlier session
PersistedData ==
  {<<>>, <<JsonSettings([DEFAULT_SETTINGS EXCEPT !.defaultCourse = TxtECE2711])>>}

\* Object.assign({}, DEFAULT_SETTINGS, await this.loadData())
loadSettings(loaded) == IF loaded = <<>> THEN DEFAULT_SETTINGS ELSE loaded[1]

(***************************************************************************)
(* Time and identifiers.                                                   *)
(***************************************************************************)
\* the mask 0x7fffffff of seed and versionNonce
Mask31 == 2147483647

\* Date.now() is hi * 2^31 + lo: the values the clock can return
Times == {[hi |-> 791, lo |-> 1000], [hi |-> 791, lo |-> Mask31 - 3]}

\* (now + k) & 0x7fffffff
MaskedPlus(now, k) ==
  IF now.lo > Mask31 - k THEN now.lo - (Mask31 - k) - 1 ELSE now.lo + k

\* uuid(): the identifier of the call after count earlier calls; the random
\* v4 identifier is taken never to repeat
uuid(count) == count + 1

(***************************************************************************)
(* File contents. A document written with JSON.stringify is the value a    *)
(* JSON parser reads back from it.                                         *)
(***************************************************************************)
NoContent == [kind |-> "none"]

ElementCommon(id, now, k) ==
  [id |-> id, angle |-> 0, fillStyle |-> "solid", strokeWidth |-> 1,
   strokeStyle |-> "solid", opacity |-> 100, groupIds |-> <<>>,
   seed |-> MaskedPlus(now, k), version |-> 1,
   versionNonce |-> MaskedPlus(now, k + 1), isDeleted |-> FALSE,
   boundElements |-> "null", updated |-> now]

RectangleElement(id, now, stroke) ==
  ElementCommon(id, now, 0) @@
  [type |-> "rectangle", x |-> 80, y |-> 60, width |-> 520, height |-> 110,
   strokeColor |-> stroke, backgroundColor |-> "#ffd6a5", roughness |-> 1,
   roundness |-> <<[type |-> 3, value |-> 8]>>]

TextElement(id, now, k, y, w, h, stroke, text, size) ==
  ElementCommon(id, now, k) @@
  [type |-> "text", x |-> 100, y |-> y, width |-> w, height |-> h,
   strokeColor |-> stroke, backgroundColor |-> "transparent", roughness |-> 0,
   roundness |-> <<>>, text |-> text, fontSize |-> size, fontFamily |-> 1,
   textAlign |-> "left", verticalAlign |-> "top", containerId |-> "null",
   originalText |-> text, lineHeight |-> "1.25"]

AppState ==
  [gridSize |-> 20, viewBackgroundColor |-> "#ffffff", scrollX |-> 0,
   scrollY |-> 0, zoom |-> [value |-> 1]]

\* a payload whose two text elements carry the identifier of the rectangle
ExcalidrawPayloadOneId(title, subtitle, now, ids, colours) ==
  [type |-> "excalidraw", version |-> 2, source |-> TxtPluginId,
   elements |-> <<RectangleElement(ids[1], now, colours[1]),
                  TextElement(ids[1], now, 2, 80, 480, 38, colours[2],
                              "U+D83DU+DCD3 " \o title, 32),
                  TextElement(ids[1], now, 4, 120, 360, 28, colours[3],
                              subtitle, 22)>>,
   appState |-> AppState, files |-> <<>>]

\* a payload whose version is taken from the clock
ExcalidrawPayloadClocked(title, subtitle, now, ids, colours) ==
  [type |-> "excalidraw", version |-> now.lo, source |-> TxtPluginId,
   elements |-> <<RectangleElement(ids[1], now, colours[1]),
                  TextElement(ids[2], now, 2, 80, 480, 38, colours[2],
                              "U+D83DU+DCD3 " \o title, 32),
                  TextElement(ids[3], now, 4, 120, 360, 28, colours[3],
                              subtitle, 22)>>,
   appState |-> AppState, files |-> <<>>]

\* the payload of createExcalidrawJSON and createExcalidrawMarkdown; ids are
\* the results of its three uuid() calls, colours the three stroke colours
ExcalidrawPayload(title, subtitle, now, ids, colours) ==
  [type |-> "excalidraw", version |-> 2, source |-> TxtPluginId,
   elements |-> <<RectangleElement(ids[1], now, colours[1]),
                  TextElement(ids[2], now, 2, 80, 480, 38, colours[2],
                              "U+D83DU+DCD3 " \o title, 32),
                  TextElement(ids[3], now, 4, 120, 360, 28, colours[3],
                              subtitle, 22)>>,
   appState |-> AppState, files |-> <<>>]

\* the text createExcalidrawJSON writes
ExcalidrawJSONText(title, subtitle, now, ids) ==
  [kind |-> "excalidraw-json",
   payload |-> ExcalidrawPayload(title, subtitle, now, ids,
                                 <<"#1e1e1e", "#000", "#444">>)]

\* the text createExcalidrawMarkdown writes
ExcalidrawMarkdownText(title, subtitle, now, ids) ==
  [kind |-> "excalidraw-md",
   frontmatter |-> "excalidraw-plugin: parsed",
   payload |-> ExcalidrawPayload(title, subtitle, now, ids,
                                 <<"#1e1e1e", "#000000", "#444444">>)]

SlidesText ==
  [kind |-> "slides", heading |-> "# Slides placeholder",
   body |-> "Right-click this node on the Canvas; Swap file; slides.pdf"]

MetaText(title, course, dateISO) ==
  [kind |-> "meta", title |-> title, course |-> course, date |-> dateISO,
   tags |-> <<course>>, heading |-> "# Lecture notes",
   body |-> "Swap slides.md to slides.pdf; open notes.excalidraw.md"]

\* JSON.stringify(CANVAS): the text node, the drawing node, the slides node,
\* each spread with its rectangle of settings.node
CanvasText(title, course, dateISO, metaPath, excalidrawPath, slidesPath, node, ids) ==
  [kind |-> "canvas", type |-> "canvas", version |-> "1.3.4",
   nodes |-> <<[id |-> ids[1], type |-> "text",
                text |-> [title |-> title, course |-> course, date |-> dateISO,
                          metadata |-> metaPath]] @@ JsonRect(node.meta),
               [id |-> ids[2], type |-> "file", file |-> excalidrawPath]
                 @@ JsonRect(node.excalidraw),
               [id |-> ids[3], type |-> "file", file |-> slidesPath]
                 @@ JsonRect(node.slides)>>,
   edges |-> <<>>]

(***************************************************************************)
(* Paths.                                                                  *)
(***************************************************************************)
\* a folder named with the title as typed
FolderOfRawTitle(root, course, dateISO, title) ==
  root \o "/" \o course \o "/" \o dateISO \o " " \o title

\* `${settings.rootFolder}/${course}/${dateISO} ${slugify(title)}`
FolderOf(root, course, dateISO, title) ==
  root \o "/" \o course \o "/" \o dateISO \o " " \o Text(slugify(Units(title)))

ExcalidrawPathOf(folder) == folder \o "/notes.excalidraw"

SlidesPathOf(folder) == folder \o "/slides.md"

MetaPathOf(folder) == folder \o "/_meta.md"

CanvasPathOf(folder, dateISO, title) ==
  folder \o "/" \o (dateISO \o " " \o Text(slugify(Units(title))) \o ".canvas")

\* the folders a recursive mkdir of path makes: path and the folders above it
FoldersOn(path) ==
  {path} \cup {SubSeq(path, 1, i - 1) : i \in {j \in 2..Len(path) : SubSeq(path, j, j) = "/"}}

(***************************************************************************)
(* The command registry of the host.                                       *)
(***************************************************************************)
Cmd(prefix, suffix, name) == [id |-> prefix \o ":" \o suffix, name |-> name]

\* what listCommands() can return in a session: the drawing plugin disabled,
\* enabled with the commands the bridge looks for, enabled with other names,
\* or enabled with the convert command and no command to open a drawing
RegistryNone == <<>>

RegistryConvert ==
  <<Cmd(TxtPluginId, "c", "Convert to new format")>>

RegistryFull ==
  <<Cmd("ft", "c", "Convert file to new format"),
    Cmd(TxtPluginId, "c", "Convert to new format"),
    Cmd(TxtPluginId, "o", "Open as Excalidraw Drawing"),
    Cmd(TxtPluginId, "l", "Convert legacy files to new format")>>

RegistryOther ==
  <<Cmd(TxtPluginId, "t", "Toggle view"),
    Cmd(TxtPluginId, "p", "Open existing drawing - IN THE CURRENT ACTIVE PANE")>>

Registries == {RegistryNone, RegistryFull, RegistryOther, RegistryConvert}

\* the command of the first open pattern registered after commands of the
\* second and third, and the convert command last
RegistryReordered ==
  <<Cmd(TxtPluginId, "p", "Open existing drawing - IN THE CURRENT ACTIVE PANE"),
    Cmd(TxtPluginId, "m", "Convert markdown note to Excalidraw Drawing"),
    Cmd(TxtPluginId, "o", "Open as Excalidraw Drawing"),
    Cmd(TxtPluginId, "c", "Convert to new format")>>

\* commands of another plugin under the names looked for, and commands of
\* the drawing plugin under other names
RegistryUnmatched ==
  <<Cmd("ft", "c", "Convert to new format"),
    Cmd("ft", "o", "Open as Excalidraw Drawing"),
    Cmd(TxtPluginId, "t", "Toggle view"),
    Cmd(TxtPluginId, "d", "Open Excalidraw drawing")>>

BridgeRegistries == Registries \cup {RegistryReordered, RegistryUnmatched}

\* re.test(name) for /A.+B/ (gap 1) and /A.*B/ (gap 0)
MatchesGap(name, a, b, gap) ==
  LET n == name
  IN \E i \in 1..Len(n) :
        OccursAt(n, a, i) /\ \E j \in (i + Len(a) + gap)..Len(n) : OccursAt(n, b, j)

\* re.test(name) for a pattern that is plain text
MatchesText(name, a) == LET n == name IN \E i \in 1..Len(n) : OccursAt(n, a, i)

IsConvertName(name) == MatchesGap(name, "convert", "new format", 1)

IsOpenAsName(name) == MatchesText(name, "open as excalidraw drawing")

IsConvertMarkdownName(name) == MatchesText(name, "convert markdown note to excalidraw drawing")

IsOpenExistingName(name) == MatchesGap(name, "open existing drawing", "current active pane", 0)

\* re.test(name) for the four patterns of clickExcalidrawButtons
Tests(re, name) ==
  CASE re = "convert.+new format" -> IsConvertName(name)
    [] re = "open as excalidraw drawing" -> IsOpenAsName(name)
    [] re = "convert markdown note to excalidraw drawing" -> IsConvertMarkdownName(name)
    [] re = "open existing drawing.*current active pane" -> IsOpenExistingName(name)

\* positions of the commands pick(re) can return
Picks(all, re) ==
  {i \in 1..Len(all) :
     startsWith(all[i].id, TxtPluginId) /\ Tests(re, Text(toLowerCase(Units(all[i].name))))}

\* the last such command
pickLast(all, re) ==
  LET found == Picks(all, re)
  IN IF found = {} THEN <<>>
     ELSE <<all[CHOOSE i \in found : \A j \in found : i >= j]>>

\* all.find(...): the first such command as a one-element list, or none
pick(all, re) ==
  LET found == Picks(all, re)
  IN IF found = {} THEN <<>>
     ELSE <<all[CHOOSE i \in found : \A j \in found : i <= j]>>

convertCmd(all) == pick(all, "convert.+new format")

\* pick(a) || pick(b) || pick(c)
openCmd(all) ==
  LET a == pick(all, "open as excalidraw drawing")
      b == pick(all, "convert markdown note to excalidraw drawing")
  IN IF a # <<>> THEN a
     ELSE IF b # <<>> THEN b
     ELSE pick(all, "open existing drawing.*current active pane")

(***************************************************************************)
(* State.                                                                  *)
(***************************************************************************)
VARIABLES
  settings,   \* this.settings of the plugin
  data,       \* what saveData has stored (data.json), <<>> when nothing
  edits,      \* number of edits made in the settings tab
  prompts,    \* the LecturePrompt of every launchPrompt call
  flows,      \* the onSubmit call of every prompt: its position and locals
  notices,    \* the notices shown on behalf of every prompt
  files,      \* the vault on disk: path -> content
  folders,    \* the folders on disk
  index,      \* the paths the vault knows as TFile (getAbstractFileByPath)
  uuidCount,  \* number of uuid() calls made
  activeFile, \* the file of the active leaf, "" when none
  commands,   \* the registered commands, as listCommands() returns them
  converting, \* files the drawing plugin has been told to convert
  slugArg,    \* harness: the text handed to slugify
  slugRes,    \* harness: the results of applying slugify again and again
  docArg,     \* harness: the arguments handed to the drawing builders
  docs        \* harness: the drawing documents built

pluginVars ==
  <<settings, data, edits, prompts, flows, notices, files, folders, index,
    uuidCount, activeFile, commands, converting>>

harnessVars == <<slugArg, slugRes, docArg, docs>>

vars == <<pluginVars, harnessVars>>

(***************************************************************************)
(* Bounds of the plugin model.                                             *)
(***************************************************************************)
\* launchPrompt calls in a session
MaxPrompts == 2

\* edits in the settings tab in a session
MaxEdits == 1

\* rejected Create presses per prompt
MaxRejects == 1

PromptIds == 1..MaxPrompts

\* what the user types into the fields of the prompt
TypedCourse == {"  ", " " \o TxtECE2711}

TypedTitle == {" ", TxtRLTitle \o " "}

TypedDate == {TxtOtherDay}

\* what the user types into the settings tab
TypedRoot == {" ", "Uni "}

TypedNumber == {"40", "abc", "Infinity"}

(***************************************************************************)
(* Initial state: the plugin loaded (onload), no prompt launched.          *)
(***************************************************************************)
NoTime == [hi |-> 0, lo |-> 0]

NoLayout ==
  [meta |-> Rect(0, 0, 0, 0), slides |-> Rect(0, 0, 0, 0),
   excalidraw |-> Rect(0, 0, 0, 0)]

IdleFlow ==
  [pc |-> "idle", course |-> "", title |-> "", dateISO |-> "",
   folder |-> "", now |-> NoTime, op |-> "", pend |-> NoContent,
   layout |-> NoLayout, steps |-> <<>>, writes |-> <<>>, ran |-> <<>>,
   prior |-> {}, after |-> {}]

NoPrompt == [state |-> "none", course |-> "", title |-> "", dateISO |-> ""]

NoNotices == [validation |-> 0, warning |-> 0, failure |-> 0, success |-> 0]

\* the vault the session starts on: empty, or holding the lecture a run of an
\* earlier session made for today's date (drawing plugin disabled then),
\* every file of it known to the vault
EarlierFolder == FolderOf(TxtLectures, TxtECE2711, TxtToday, TxtRLTitle)

EarlierTime == [hi |-> 790, lo |-> 5]

EarlierFiles ==
  [q \in {ExcalidrawPathOf(EarlierFolder), SlidesPathOf(EarlierFolder),
          MetaPathOf(EarlierFolder), CanvasPathOf(EarlierFolder, TxtToday, TxtRLTitle)} |->
     IF q = ExcalidrawPathOf(EarlierFolder)
       THEN ExcalidrawJSONText(TxtECE2711 \o " U+2014 " \o TxtRLTitle,
                               "Date: " \o TxtToday, EarlierTime,
                               <<uuid(0 - 6), uuid(0 - 5), uuid(0 - 4)>>)
     ELSE IF q = SlidesPathOf(EarlierFolder) THEN SlidesText
     ELSE IF q = MetaPathOf(EarlierFolder) THEN MetaText(TxtRLTitle, TxtECE2711, TxtToday)
     ELSE CanvasText(TxtRLTitle, TxtECE2711, TxtToday, MetaPathOf(EarlierFolder),
                     ExcalidrawPathOf(EarlierFolder), SlidesPathOf(EarlierFolder),
                     DEFAULT_SETTINGS.node, <<uuid(0 - 3), uuid(0 - 2), uuid(0 - 1)>>)]

NoVault == [files |-> <<>>, folders |-> {}, index |-> {}]

EarlierVault ==
  [files |-> EarlierFiles, folders |-> FoldersOn(EarlierFolder),
   index |-> DOMAIN EarlierFiles]

LoadedVaults == {NoVault, EarlierVault}

PluginInit ==
  /\ data \in PersistedData
  /\ settings = loadSettings(data)
  /\ edits = 0
  /\ prompts = [p \in PromptIds |-> NoPrompt]
  /\ flows = [p \in PromptIds |-> IdleFlow]
  /\ notices = [p \in PromptIds |-> NoNotices]
  /\ \E v \in LoadedVaults : files = v.files /\ folders = v.folders /\ index = v.index
  /\ uuidCount = 0
  /\ activeFile = ""
  /\ commands \in Registries
  /\ converting = {}

NoDocArg == [title |-> "", subtitle |-> "", now |-> NoTime]

HarnessIdle ==
  /\ slugArg = <<>>
  /\ slugRes = <<>>
  /\ docArg = NoDocArg
  /\ docs = <<>>

Init == PluginInit /\ HarnessIdle

(***************************************************************************)
(* The vault.                                                              *)
(***************************************************************************)
Put(f, path, text) == [q \in DOMAIN f \cup {path} |-> IF q = path THEN text ELSE f[q]]

Remove(f, path) == [q \in DOMAIN f \ {path} |-> f[q]]

\* adapter.exists(path)
Exists(path) == path \in folders \/ path \in DOMAIN files

\* app.vault.getAbstractFileByPath(path) instanceof TFile
IsTFile(path) == path \in index

\* the content with the generated fields (id, seed, versionNonce, updated)
\* blanked
Blank(e) ==
  [k \in DOMAIN e |->
     IF k \in {"id", "seed", "versionNonce"} THEN 0
     ELSE IF k = "updated" THEN NoTime ELSE e[k]]

Strip(text) ==
  IF text.kind \in {"excalidraw-json", "excalidraw-md"}
    THEN [text EXCEPT !.payload.elements =
            [i \in DOMAIN text.payload.elements |-> Blank(text.payload.elements[i])]]
  ELSE IF text.kind = "canvas"
    THEN [text EXCEPT !.nodes = [i \in DOMAIN text.nodes |-> Blank(text.nodes[i])]]
  ELSE text

(***************************************************************************)
(* The settings tab (LectureSettingTab.display).                           *)
(***************************************************************************)
\* every onChange ends with saveSettings()
Saved(s) ==
  /\ settings' = s
  /\ data' = <<JsonSettings(s)>>
  /\ edits' = edits + 1
  /\ UNCHANGED <<prompts, flows, notices, files, folders, index, uuidCount,
                 activeFile, commands, converting, harnessVars>>

SetRootFolder(v) ==
  /\ edits < MaxEdits
  /\ Saved([settings EXCEPT !.rootFolder =
              IF trim(v) = "" THEN TxtLectures ELSE trim(v)])

SetDefaultCourse(v) ==
  /\ edits < MaxEdits
  /\ Saved([settings EXCEPT !.defaultCourse = trim(v)])

SetExcalidrawCheck(v) ==
  /\ edits < MaxEdits
  /\ v # settings.excalidrawCheck
  /\ Saved([settings EXCEPT !.excalidrawCheck = v])

\* !Number.isNaN(n)
TakesNumber(n) == n.t # "nan"

\* mkNum's onChange: if (!Number.isNaN(n)) obj[name] = n
SetDimension(block, name, v) ==
  /\ edits < MaxEdits
  /\ Saved(IF TakesNumber(NumberOf(v))
             THEN [settings EXCEPT !.node[block][name] = NumberOf(v)]
             ELSE settings)

(***************************************************************************)
(* The prompt (LecturePrompt) and launchPrompt.                            *)
(***************************************************************************)
launchPrompt(p) ==
  /\ prompts[p].state = "none"
  /\ \A q \in PromptIds : q < p => prompts[q].state # "none"
  /\ prompts' = [prompts EXCEPT ![p] =
                   [state |-> "open", course |-> settings.defaultCourse,
                    title |-> "", dateISO |-> TxtToday]]
  /\ UNCHANGED <<settings, data, edits, flows, notices, files, folders, index,
                 uuidCount, activeFile, commands, converting, harnessVars>>

EditField(p, field, value) ==
  /\ prompts[p].state = "open"
  /\ prompts' = [prompts EXCEPT ![p][field] = value]
  /\ UNCHANGED <<settings, data, edits, flows, notices, files, folders, index,
                 uuidCount, activeFile, commands, converting, harnessVars>>

SetCourse(p, v) == EditField(p, "course", trim(v))

SetTitle(p, v) == EditField(p, "title", trim(v))

SetDate(p, v) == EditField(p, "dateISO", v)

isExcalidrawEnabled == commands # RegistryNone

\* writeLectureCanvas up to its first await: the warning, the folder, and
\* ensureFolder's adapter.exists
StartedFlow(pr) ==
  [IdleFlow EXCEPT !.pc = "exists", !.course = pr.course, !.title = pr.title,
     !.dateISO = pr.dateISO,
     !.folder = FolderOf(settings.rootFolder, pr.course, pr.dateISO, pr.title),
     !.prior = {q \in PromptIds : flows[q].pc = "done"}]

\* a close that also hands the fields to onSubmit
ClosePromptSubmitting(p) ==
  /\ prompts[p].state = "open"
  /\ prompts' = [prompts EXCEPT ![p].state = "closed"]
  /\ flows' = [flows EXCEPT ![p] = StartedFlow(prompts[p])]
  /\ UNCHANGED <<settings, data, edits, notices, files, folders, index,
                 uuidCount, activeFile, commands, converting, harnessVars>>

\* the dialog closed by the user (Escape, the close button): onClose
ClosePrompt(p) ==
  /\ prompts[p].state = "open"
  /\ prompts' = [prompts EXCEPT ![p].state = "closed"]
  /\ UNCHANGED <<settings, data, edits, flows, notices, files, folders, index,
                 uuidCount, activeFile, commands, converting, harnessVars>>

\* a check that looks at the title only
TitleMissing(pr) == pr.title = ""

\* submit.onclick: if (!this.title) return ...; if (!this.course) return ...;
\* else this.close() and onSubmit(...); a prompt closed this way is "submitted"
SubmitRejected(pr) == pr.title = "" \/ pr.course = ""

PressCreate(p) ==
  /\ prompts[p].state = "open"
  /\ IF SubmitRejected(prompts[p])
       THEN /\ notices[p].validation < MaxRejects
            /\ notices' = [notices EXCEPT ![p].validation = @ + 1]
            /\ UNCHANGED <<prompts, flows>>
       ELSE /\ prompts' = [prompts EXCEPT ![p].state = "submitted"]
            /\ flows' = [flows EXCEPT ![p] = StartedFlow(prompts[p])]
            /\ notices' = [notices EXCEPT ![p].warning =
                             IF settings.excalidrawCheck /\ ~isExcalidrawEnabled
                               THEN @ + 1 ELSE @]
  /\ UNCHANGED <<settings, data, edits, files, folders, index, uuidCount,
                 activeFile, commands, converting, harnessVars>>

(***************************************************************************)
(* writeLectureCanvas after its first await. A flow rests at an await; a   *)
(* step completes the awaited operation and runs the code up to the next.  *)
(***************************************************************************)
Logged(f, step, path) ==
  [f EXCEPT !.steps = Append(@, step),
            !.writes = Append(@, [path |-> path, text |-> f.pend])]

\* createExcalidrawJSON up to its await: the payload, and create or modify
BeginDrawing(f, now) ==
  [f EXCEPT !.pc = "drawing", !.now = now,
     !.pend = ExcalidrawJSONText(f.course \o " U+2014 " \o f.title,
                                 "Date: " \o f.dateISO, now,
                                 <<uuid(uuidCount), uuid(uuidCount + 1),
                                   uuid(uuidCount + 2)>>),
     !.op = IF IsTFile(ExcalidrawPathOf(f.folder)) THEN "modify" ELSE "create"]

\* a continuation that writes _meta.md where slides.md is due
BeginMetaFirst(f) ==
  [f EXCEPT !.pc = "meta", !.pend = MetaText(f.title, f.course, f.dateISO)]

\* the write of the slides placeholder, begun
BeginSlides(f) == [f EXCEPT !.pc = "slides", !.pend = SlidesText]

\* clickExcalidrawButtons from "2)" on: the open command, or the fallback
AfterConvert(f) ==
  IF openCmd(commands) # <<>> THEN [f EXCEPT !.pc = "openCmd"]
  ELSE IF IsTFile(IF endsWith(ExcalidrawPathOf(f.folder), ".excalidraw")
                    THEN ExcalidrawPathOf(f.folder) \o ".md"
                    ELSE ExcalidrawPathOf(f.folder))
    THEN [f EXCEPT !.pc = "viewState"]
    ELSE BeginSlides(f)

\* a catch that shows nothing
CaughtSilently(p) ==
  /\ flows' = [flows EXCEPT ![p].pc = "failed", ![p].pend = NoContent]
  /\ notices' = notices

\* launchPrompt's catch: console.error and the failure notice
Caught(p) ==
  /\ flows' = [flows EXCEPT ![p].pc = "failed", ![p].pend = NoContent]
  /\ notices' = [notices EXCEPT ![p].failure = @ + 1]

\* ensureFolder: adapter.exists answered true
FolderFound(p) ==
  /\ flows[p].pc = "exists"
  /\ Exists(flows[p].folder)
  /\ \E now \in Times :
       flows' = [flows EXCEPT ![p] =
                   BeginDrawing([flows[p] EXCEPT !.steps = Append(@, "folder")], now)]
  /\ uuidCount' = uuidCount + 3
  /\ UNCHANGED <<settings, data, edits, prompts, notices, files, folders, index,
                 activeFile, commands, converting, harnessVars>>

\* ensureFolder: adapter.exists answered false, adapter.mkdir begun
FolderMissing(p) ==
  /\ flows[p].pc = "exists"
  /\ ~Exists(flows[p].folder)
  /\ flows' = [flows EXCEPT ![p].pc = "mkdir"]
  /\ UNCHANGED <<settings, data, edits, prompts, notices, files, folders, index,
                 uuidCount, activeFile, commands, converting, harnessVars>>

\* adapter.mkdir done
FolderMade(p) ==
  /\ flows[p].pc = "mkdir"
  /\ folders' = folders \cup FoldersOn(flows[p].folder)
  /\ \E now \in Times :
       flows' = [flows EXCEPT ![p] =
                   BeginDrawing([flows[p] EXCEPT !.steps = Append(@, "folder")], now)]
  /\ uuidCount' = uuidCount + 3
  /\ UNCHANGED <<settings, data, edits, prompts, notices, files, index,
                 activeFile, commands, converting, harnessVars>>

\* vault.modify or vault.create of the drawing done (create throws when the
\* vault already has the file), then clickExcalidrawButtons up to openFile
DrawingWritten(p) ==
  LET f == flows[p]
      path == ExcalidrawPathOf(f.folder)
  IN /\ f.pc = "drawing"
     /\ IF f.op = "create" /\ IsTFile(path)
          THEN /\ Caught(p)
               /\ UNCHANGED <<files, index>>
          ELSE /\ files' = Put(files, path, f.pend)
               /\ index' = index \cup {path}
               /\ flows' = [flows EXCEPT ![p] =
                    IF path \in index'
                      THEN [Logged(f, "drawing", path) EXCEPT
                              !.pc = "openDrawing", !.pend = NoContent]
                      ELSE BeginSlides(Logged(f, "drawing", path))]
               /\ UNCHANGED notices
     /\ UNCHANGED <<settings, data, edits, prompts, folders, uuidCount,
                    activeFile, commands, converting, harnessVars>>

\* leaf.openFile done, setActiveLeaf, the commands listed, convert begun
DrawingOpened(p) ==
  /\ flows[p].pc = "openDrawing"
  /\ activeFile' = ExcalidrawPathOf(flows[p].folder)
  /\ flows' = [flows EXCEPT ![p] =
                 IF convertCmd(commands) # <<>>
                   THEN [flows[p] EXCEPT !.pc = "convert"]
                   ELSE AfterConvert(flows[p])]
  /\ UNCHANGED <<settings, data, edits, prompts, notices, files, folders, index,
                 uuidCount, commands, converting, harnessVars>>

\* executeCommandById(convertCmd.id) done: the drawing plugin is to convert
\* the active file; the 100 ms timer begun
ConvertRun(p) ==
  /\ flows[p].pc = "convert"
  /\ flows' = [flows EXCEPT ![p].pc = "tick",
                            ![p].ran = Append(@, convertCmd(commands)[1].id)]
  /\ converting' = converting \cup
       (IF endsWith(activeFile, ".excalidraw") THEN {activeFile} ELSE {})
  /\ UNCHANGED <<settings, data, edits, prompts, notices, files, folders, index,
                 uuidCount, activeFile, commands, harnessVars>>

\* the timer fired
TickDone(p) ==
  /\ flows[p].pc = "tick"
  /\ flows' = [flows EXCEPT ![p] = AfterConvert(flows[p])]
  /\ UNCHANGED <<settings, data, edits, prompts, notices, files, folders, index,
                 uuidCount, activeFile, commands, converting, harnessVars>>

\* executeCommandById(openCmd.id) done
OpenRun(p) ==
  /\ flows[p].pc = "openCmd"
  /\ flows' = [flows EXCEPT ![p] =
                 BeginSlides([flows[p] EXCEPT !.ran = Append(@, openCmd(commands)[1].id)])]
  /\ UNCHANGED <<settings, data, edits, prompts, notices, files, folders, index,
                 uuidCount, activeFile, commands, converting, harnessVars>>

\* leaf.setViewState done, revealLeaf
ViewStateSet(p) ==
  /\ flows[p].pc = "viewState"
  /\ flows' = [flows EXCEPT ![p] = BeginSlides(flows[p])]
  /\ UNCHANGED <<settings, data, edits, prompts, notices, files, folders, index,
                 uuidCount, activeFile, commands, converting, harnessVars>>

\* adapter.write of slides.md done, the write of _meta.md begun
SlidesWritten(p) ==
  LET f == flows[p]
  IN /\ f.pc = "slides"
     /\ files' = Put(files, SlidesPathOf(f.folder), f.pend)
     /\ flows' = [flows EXCEPT ![p] =
                    [Logged(f, "slides", SlidesPathOf(f.folder)) EXCEPT
                       !.pc = "meta",
                       !.pend = MetaText(f.title, f.course, f.dateISO)]]
     /\ UNCHANGED <<settings, data, edits, prompts, notices, folders, index,
                    uuidCount, activeFile, commands, converting, harnessVars>>

\* adapter.write of _meta.md done, CANVAS built from settings.node, the write
\* of the canvas begun
MetaWritten(p) ==
  LET f == flows[p]
  IN /\ f.pc = "meta"
     /\ files' = Put(files, MetaPathOf(f.folder), f.pend)
     /\ flows' = [flows EXCEPT ![p] =
                    [Logged(f, "meta", MetaPathOf(f.folder)) EXCEPT
                       !.pc = "canvas",
                       !.layout = settings.node,
                       !.pend = CanvasText(f.title, f.course, f.dateISO,
                                  MetaPathOf(f.folder), ExcalidrawPathOf(f.folder),
                                  SlidesPathOf(f.folder), settings.node,
                                  <<uuid(uuidCount), uuid(uuidCount + 1),
                                    uuid(uuidCount + 2)>>)]]
     /\ uuidCount' = uuidCount + 3
     /\ UNCHANGED <<settings, data, edits, prompts, notices, folders, index,
                    activeFile, commands, converting, harnessVars>>

\* adapter.write of the canvas done; the canvas opened when the vault knows
\* it, else the success notice
CanvasWritten(p) ==
  LET f == flows[p]
      path == CanvasPathOf(f.folder, f.dateISO, f.title)
  IN /\ f.pc = "canvas"
     /\ files' = Put(files, path, f.pend)
     /\ flows' = [flows EXCEPT ![p] =
                    [Logged(f, "canvas", path) EXCEPT
                       !.pc = IF IsTFile(path) THEN "openCanvas" ELSE "done",
                       !.after = IF IsTFile(path) THEN @ ELSE DOMAIN files',
                       !.pend = NoContent]]
     /\ notices' = [notices EXCEPT ![p].success =
                      IF IsTFile(path) THEN @ ELSE @ + 1]
     /\ UNCHANGED <<settings, data, edits, prompts, folders, index, uuidCount,
                    activeFile, commands, converting, harnessVars>>

\* leaf.openFile(canvasFile) done, the success notice
CanvasOpened(p) ==
  /\ flows[p].pc = "openCanvas"
  /\ activeFile' = CanvasPathOf(flows[p].folder, flows[p].dateISO, flows[p].title)
  /\ flows' = [flows EXCEPT ![p].pc = "done", ![p].after = DOMAIN files]
  /\ notices' = [notices EXCEPT ![p].success = @ + 1]
  /\ UNCHANGED <<settings, data, edits, prompts, files, folders, index,
                 uuidCount, commands, converting, harnessVars>>

\* the awaits that can reject: the file store, the workspace, the commands
Rejectable ==
  {"exists", "mkdir", "drawing", "openDrawing", "convert", "openCmd",
   "viewState", "slides", "meta", "canvas", "openCanvas"}

\* the awaited operation rejects: writeLectureCanvas throws into the catch
OperationFails(p) ==
  /\ flows[p].pc \in Rejectable
  /\ Caught(p)
  /\ UNCHANGED <<settings, data, edits, prompts, files, folders, index,
                 uuidCount, activeFile, commands, converting, harnessVars>>

(***************************************************************************)
(* The host and the drawing plugin.                                        *)
(***************************************************************************)
\* the file watcher tells the vault of a file written through the adapter;
\* of these the plugin asks the vault for the canvas only
FileIndexed(path) ==
  /\ path \in DOMAIN files \ index
  /\ files[path].kind = "canvas"
  /\ index' = index \cup {path}
  /\ UNCHANGED <<settings, data, edits, prompts, flows, notices, files, folders,
                 uuidCount, activeFile, commands, converting, harnessVars>>

\* the drawing plugin converts a file: notes.excalidraw becomes
\* notes.excalidraw.md (main.ts:328); over a notes.excalidraw.md that is
\* there already the plugin either replaces it or leaves both files
DrawingConverted(path) ==
  /\ path \in converting
  /\ converting' = converting \ {path}
  /\ \/ /\ path \in DOMAIN files
        /\ files' = Put(Remove(files, path), path \o ".md",
                        [kind |-> "excalidraw-md",
                         frontmatter |-> "excalidraw-plugin: parsed",
                         payload |-> files[path].payload])
        /\ index' = (index \ {path}) \cup {path \o ".md"}
        /\ activeFile' = IF activeFile = path THEN path \o ".md" ELSE activeFile
     \/ /\ path \notin DOMAIN files \/ path \o ".md" \in DOMAIN files
        /\ UNCHANGED <<files, index, activeFile>>
  /\ UNCHANGED <<settings, data, edits, prompts, flows, notices, folders,
                 uuidCount, commands, harnessVars>>

(***************************************************************************)
(* The plugin in its session.                                              *)
(***************************************************************************)
Blocks == {"meta", "slides", "excalidraw"}

Dimensions == {"x", "y", "width", "height"}

SettingsStep ==
  \/ \E v \in TypedRoot : SetRootFolder(v)
  \/ \E v \in TypedCourse : SetDefaultCourse(v)
  \/ \E v \in BOOLEAN : SetExcalidrawCheck(v)
  \/ \E b \in Blocks, n \in Dimensions, v \in TypedNumber : SetDimension(b, n, v)

PromptStep(p) ==
  \/ launchPrompt(p)
  \/ \E v \in TypedCourse : SetCourse(p, v)
  \/ \E v \in TypedTitle : SetTitle(p, v)
  \/ \E v \in TypedDate : SetDate(p, v)
  \/ ClosePrompt(p)
  \/ PressCreate(p)

FlowStep(p) ==
  \/ FolderFound(p)
  \/ FolderMissing(p)
  \/ FolderMade(p)
  \/ DrawingWritten(p)
  \/ DrawingOpened(p)
  \/ ConvertRun(p)
  \/ TickDone(p)
  \/ OpenRun(p)
  \/ ViewStateSet(p)
  \/ SlidesWritten(p)
  \/ MetaWritten(p)
  \/ CanvasWritten(p)
  \/ CanvasOpened(p)
  \/ OperationFails(p)

HostStep ==
  \/ \E path \in DOMAIN files : FileIndexed(path)
  \/ \E path \in converting : DrawingConverted(path)

\* a session with one launch of the prompt, and the settings tab in use
Next ==
  \/ SettingsStep
  \/ PromptStep(1)
  \/ FlowStep(1)
  \/ HostStep

Spec == Init /\ [][Next]_vars

\* a session with up to MaxPrompts launches on an empty vault: the settings
\* as saved earlier, the drawing plugin enabled, the user typing the title
\* only
RunsInit ==
  /\ Init
  /\ data # <<>>
  /\ commands \in {RegistryFull, RegistryConvert}
  /\ files = <<>>

RunsPromptStep(p) ==
  \/ launchPrompt(p)
  \/ \E v \in TypedTitle : SetTitle(p, v)
  \/ ClosePrompt(p)
  \/ PressCreate(p)

RunsNext ==
  \/ \E p \in PromptIds : RunsPromptStep(p)
  \/ \E p \in PromptIds : FlowStep(p)
  \/ HostStep

SpecRuns == RunsInit /\ [][RunsNext]_vars

\* a session with one launch of the prompt, the settings as saved earlier,
\* the user typing the title only, over every registry of BridgeRegistries
BridgeInit ==
  /\ data \in PersistedData \ {<<>>}
  /\ settings = loadSettings(data)
  /\ edits = 0
  /\ prompts = [p \in PromptIds |-> NoPrompt]
  /\ flows = [p \in PromptIds |-> IdleFlow]
  /\ notices = [p \in PromptIds |-> NoNotices]
  /\ \E v \in LoadedVaults : files = v.files /\ folders = v.folders /\ index = v.index
  /\ uuidCount = 0
  /\ activeFile = ""
  /\ commands \in BridgeRegistries
  /\ converting = {}
  /\ HarnessIdle

BridgeNext ==
  \/ RunsPromptStep(1)
  \/ FlowStep(1)
  \/ HostStep

SpecBridge == BridgeInit /\ [][BridgeNext]_vars

(***************************************************************************)
(* slugify applied to typed text, and again to its own result.             *)
(***************************************************************************)
TitleChars == {"a", "B", "7", "-", " ", "U+0009", "!", "U+0130"}

RECURSIVE Repeat(_, _)
Repeat(c, n) == IF n = 0 THEN <<>> ELSE <<c>> \o Repeat(c, n - 1)

SeqsUpTo(S, n) == UNION {[1..k -> S] : k \in 0..n}

\* paddings that put the cut of slice(0, 64) on every place of the tail
PadLens == {0, SliceLen - 2, SliceLen - 1, SliceLen}

SlugInputs == {Repeat("a", n) \o t : n \in PadLens, t \in SeqsUpTo(TitleChars, MaxTail)}

SlugInit ==
  /\ slugArg \in SlugInputs
  /\ slugRes = <<>>
  /\ docArg = NoDocArg
  /\ docs = <<>>
  /\ PluginInit
  /\ data = <<>>
  /\ commands = RegistryNone
  /\ files = <<>>

SlugApply ==
  /\ Len(slugRes) < 2
  /\ slugRes' = Append(slugRes,
                       slugify(IF slugRes = <<>> THEN slugArg ELSE slugRes[Len(slugRes)]))
  /\ UNCHANGED <<slugArg, docArg, docs, pluginVars>>

SlugNext == SlugApply

SpecSlug == SlugInit /\ [][SlugNext]_vars

(***************************************************************************)
(* The drawing builders applied to a title and a subtitle. main.ts calls   *)
(* createExcalidrawJSON only; createExcalidrawMarkdown is built the same   *)
(* way and is applied here next to it.                                     *)
(***************************************************************************)
\* documents built in a session of the harness
MaxDocs == 2

DocTitles == {"", "a", TxtECE2711 \o " U+2014 " \o TxtRLTitle}

DocSubtitles == {"Date: " \o TxtToday, "Date: " \o TxtOtherDay}

DocInit ==
  /\ docArg \in [title : DocTitles, subtitle : DocSubtitles, now : {NoTime}]
  /\ docs = <<>>
  /\ slugArg = <<>>
  /\ slugRes = <<>>
  /\ PluginInit
  /\ data = <<>>
  /\ commands = RegistryNone
  /\ files = <<>>

\* createExcalidrawJSON up to the text it hands to the vault
createExcalidrawJSON ==
  /\ Len(docs) < MaxDocs
  /\ \E now \in Times :
       docs' = Append(docs, ExcalidrawJSONText(docArg.title, docArg.subtitle, now,
                              <<uuid(uuidCount), uuid(uuidCount + 1), uuid(uuidCount + 2)>>))
  /\ uuidCount' = uuidCount + 3
  /\ UNCHANGED <<settings, data, edits, prompts, flows, notices, files, folders,
                 index, activeFile, commands, converting, slugArg, slugRes, docArg>>

\* createExcalidrawMarkdown up to the text it hands to the vault
createExcalidrawMarkdown ==
  /\ Len(docs) < MaxDocs
  /\ \E now \in Times :
       docs' = Append(docs, ExcalidrawMarkdownText(docArg.title, docArg.subtitle, now,
                              <<uuid(uuidCount), uuid(uuidCount + 1), uuid(uuidCount + 2)>>))
  /\ uuidCount' = uuidCount + 3
  /\ UNCHANGED <<settings, data, edits, prompts, flows, notices, files, folders,
                 index, activeFile, commands, converting, slugArg, slugRes, docArg>>

DocNext ==
  \/ createExcalidrawJSON
  \/ createExcalidrawMarkdown

SpecDoc == DocInit /\ [][DocNext]_vars

(***************************************************************************)
(* Claims about slugify.                                                   *)
(***************************************************************************)
NoAdjacentHyphens(s) == \A i \in 1..(Len(s) - 1) : ~(s[i] = "-" /\ s[i + 1] = "-")

\* C2: for every non-empty title, slugify(title) has only characters of
\* a-z, 0-9 and '-', is at most 64 long and has no two adjacent hyphens.
C2_SlugShape ==
  (slugArg # <<>> /\ Len(slugRes) >= 1) =>
     /\ \A i \in 1..Len(slugRes[1]) :
          slugRes[1][i] \in Range(LowerLetters) \cup Digits \cup {"-"}
     /\ Len(slugRes[1]) <= 64
     /\ NoAdjacentHyphens(slugRes[1])

\* a title longer than 64 with a capital, a run of blanks and hyphens and a
\* stripped character, cut to exactly 64
C2_Witness ==
  /\ Len(slugRes) >= 1
  /\ Len(slugArg) > 64
  /\ Len(slugRes[1]) = 64
  /\ \E i \in 1..(Len(slugArg) - 1) : slugArg[i] = " " /\ slugArg[i + 1] = "-"
  /\ \E i \in 1..Len(slugArg) : slugArg[i] = "B"

\* C3: slugify(slugify(x)) = slugify(x) for every x, also when x is cut at 64
\* right after a hyphen.
C3_SlugIdempotent ==
  Len(slugRes) = 2 => slugRes[2] = slugRes[1]

\* an input longer than 64 whose slug is cut right after a hyphen
C3_Witness ==
  /\ Len(slugRes) = 2
  /\ Len(slugArg) > 64
  /\ Len(slugRes[1]) = 64
  /\ slugRes[1][64] = "-"
  /\ slugArg # slugRes[1]

(***************************************************************************)
(* Claims about the prompt.                                                *)
(***************************************************************************)
\* C1: from an open prompt whose course or title is empty, no step submits
\* it or calls onSubmit, and the Create press that is rejected (it shows the
\* validation notice) leaves the dialog open and the vault untouched.
C1_EmptyFieldRejects ==
  [][\A p \in PromptIds :
       (prompts[p].state = "open" /\ (prompts[p].course = "" \/ prompts[p].title = ""))
         => /\ prompts'[p].state # "submitted"
            /\ flows'[p] = flows[p]
            /\ notices'[p].validation > notices[p].validation
                 => /\ prompts'[p].state = "open"
                    /\ files' = files
                    /\ folders' = folders
                    /\ index' = index]_vars

\* Create pressed with a title and a course typed as blanks only
C1_Witness ==
  /\ prompts[1].state = "open"
  /\ notices[1].validation = 1
  /\ prompts[1].title # ""
  /\ prompts[1].course = ""
  /\ flows[1].pc = "idle"
  /\ files = <<>>

\* C8: while a prompt has not been submitted by an accepted Create press,
\* also after it was closed, its onSubmit has not run and the vault holds
\* the files and folders it held when the session began, no other.
C8_NoWriteWithoutSubmit ==
  prompts[1].state # "submitted" =>
     /\ flows[1] = IdleFlow
     /\ [files |-> files, folders |-> folders, index |-> index] \in LoadedVaults

\* the prompt closed with a course, a title and a date typed, Create not
\* pressed
C8_Witness ==
  /\ prompts[1].state = "closed"
  /\ prompts[1].course # ""
  /\ prompts[1].title # ""
  /\ prompts[1].dateISO = TxtOtherDay
  /\ notices[1].validation = 0
  /\ files = <<>>
  /\ folders = {}

(***************************************************************************)
(* Claims about the paths.                                                 *)
(***************************************************************************)
\* the file name of a step of the write sequence
StepFile(f, step) ==
  CASE step = "drawing" -> "notes.excalidraw"
    [] step = "slides" -> "slides.md"
    [] step = "meta" -> "_meta.md"
    [] step = "canvas" -> f.dateISO \o " " \o Text(slugify(Units(f.title))) \o ".canvas"

\* C4: the folder of a run is <rootFolder>/<course>/<date> <slugify(title)>
\* of the submission, every path it writes is the folder, '/' and the file
\* name, and the request ECE2711 / RL Frequency Response / 2024-03-05 under
\* the root Lectures gets Lectures/ECE2711/2024-03-05 rl-frequency-response.
C4_FolderAndPaths ==
  /\ [][\A p \in PromptIds :
          (prompts[p].state = "open" /\ prompts'[p].state = "submitted")
            => /\ flows'[p].folder =
                    settings.rootFolder \o "/" \o prompts[p].course \o "/"
                      \o prompts[p].dateISO \o " " \o Text(slugify(Units(prompts[p].title)))
               /\ (/\ settings.rootFolder = "Lectures"
                   /\ prompts[p].course = "ECE2711"
                   /\ prompts[p].title = "RL Frequency Response"
                   /\ prompts[p].dateISO = "2024-03-05")
                    => flows'[p].folder = "Lectures/ECE2711/2024-03-05 rl-frequency-response"]_vars
  /\ [](\A p \in PromptIds :
          /\ Len(flows[p].steps) >= 1 => flows[p].folder \in folders
          /\ \A i \in 1..Len(flows[p].writes) :
               flows[p].writes[i].path =
                 flows[p].folder \o "/" \o StepFile(flows[p], flows[p].steps[i + 1]))

\* the run of the example request, through to its canvas
C4_Witness ==
  /\ flows[1].pc = "done"
  /\ flows[1].folder = TxtExampleFolder
  /\ Len(flows[1].writes) = 4
  /\ flows[1].writes[4].path \in DOMAIN files

(***************************************************************************)
(* Claims about the documents.                                             *)
(***************************************************************************)
RectOf(n) == [x |-> n.x, y |-> n.y, width |-> n.width, height |-> n.height]

\* C5: a canvas written by a run has exactly the text node, the drawing node
\* and the slides node, no edges, and the rectangles of the three nodes are
\* the meta, excalidraw and slides rectangles the settings held when the
\* canvas was built.
C5_CanvasMatchesLayout ==
  \A p \in PromptIds : \A i \in 1..Len(flows[p].writes) :
     flows[p].steps[i + 1] = "canvas" =>
        LET c == flows[p].writes[i].text
        IN /\ Len(c.nodes) = 3
           /\ c.edges = <<>>
           /\ c.nodes[1].type = "text"
           /\ c.nodes[2].type = "file"
           /\ c.nodes[2].file = ExcalidrawPathOf(flows[p].folder)
           /\ c.nodes[3].type = "file"
           /\ c.nodes[3].file = SlidesPathOf(flows[p].folder)
           /\ RectOf(c.nodes[1]) = flows[p].layout.meta
           /\ RectOf(c.nodes[2]) = flows[p].layout.excalidraw
           /\ RectOf(c.nodes[3]) = flows[p].layout.slides

IdsOf(doc) == {doc.payload.elements[i].id : i \in DOMAIN doc.payload.elements}

\* C6: a document built by createExcalidrawJSON or createExcalidrawMarkdown
\* has type "excalidraw", version 2, and as many element ids as elements.
C6_DrawingDocument ==
  \A i \in 1..Len(docs) :
     /\ docs[i].payload.type = "excalidraw"
     /\ docs[i].payload.version = 2
     /\ Len(docs[i].payload.elements) = 3
     /\ Cardinality(IdsOf(docs[i])) = Len(docs[i].payload.elements)

\* a document of each builder, built one after the other
C6_Witness ==
  /\ Len(docs) = 2
  /\ docs[1].kind = "excalidraw-json"
  /\ docs[2].kind = "excalidraw-md"
  /\ docArg.title # ""

SameRequest(f, g) ==
  f.course = g.course /\ f.title = g.title /\ f.dateISO = g.dateISO

\* C7: two runs of the same course, title and date under the same settings
\* write, step for step, to the same paths, and what they write is the same
\* once id, seed, versionNonce and updated are blanked.
C7_RunsAgree ==
  \A p, q \in PromptIds :
     (p # q /\ SameRequest(flows[p], flows[q])) =>
        /\ \A i \in 1..Min(Len(flows[p].writes), Len(flows[q].writes)) :
             /\ flows[p].writes[i].path = flows[q].writes[i].path
             /\ Strip(flows[p].writes[i].text) = Strip(flows[q].writes[i].text)
        /\ (flows[p].pc = "done" /\ flows[q].pc = "done")
             => {flows[p].writes[i].path : i \in 1..Len(flows[p].writes)}
                  = {flows[q].writes[i].path : i \in 1..Len(flows[q].writes)}

\* two finished runs of one request at different times, their drawings and
\* canvases differing in the generated fields
C7_Witness ==
  /\ flows[1].pc = "done"
  /\ flows[2].pc = "done"
  /\ SameRequest(flows[1], flows[2])
  /\ flows[1].now # flows[2].now
  /\ flows[1].writes[1].text # flows[2].writes[1].text
  /\ flows[1].writes[4].text # flows[2].writes[4].text

(***************************************************************************)
(* Claims about the write sequence.                                        *)
(***************************************************************************)
WriteOrder == <<"folder", "drawing", "slides", "meta", "canvas">>

\* the steps a run has completed when it rests at pc
StepsDoneAt(pc) ==
  CASE pc \in {"idle", "exists", "mkdir"} -> {0}
    [] pc = "drawing" -> {1}
    [] pc \in {"openDrawing", "convert", "tick", "openCmd", "viewState", "slides"} -> {2}
    [] pc = "meta" -> {3}
    [] pc = "canvas" -> {4}
    [] pc \in {"openCanvas", "done"} -> {5}
    [] pc = "failed" -> 0..5

\* C9: the steps a run has completed are an initial part of: folder,
\* drawing, slides, metadata note, canvas; a step is in flight only when all
\* before it are complete, a completed write is on disk, and until the other
\* three files are written the run's canvas is not on disk, or is the canvas
\* an earlier session left there, untouched.
C9_WriteOrder ==
  \A p \in PromptIds :
     LET f == flows[p]
     IN /\ f.steps = SubSeq(WriteOrder, 1, Len(f.steps))
        /\ Len(f.steps) \in StepsDoneAt(f.pc)
        /\ Len(f.writes) = (IF f.steps = <<>> THEN 0 ELSE Len(f.steps) - 1)
        /\ \A i \in 1..Len(f.writes) :
             \/ f.writes[i].path \in DOMAIN files
             \/ f.steps[i + 1] = "drawing" /\ (f.writes[i].path \o ".md") \in DOMAIN files
        /\ (f.pc # "idle" /\ Len(f.writes) < 4
               /\ CanvasPathOf(f.folder, f.dateISO, f.title) \in DOMAIN files)
             => /\ CanvasPathOf(f.folder, f.dateISO, f.title) \in DOMAIN EarlierFiles
                /\ files[CanvasPathOf(f.folder, f.dateISO, f.title)]
                     = EarlierFiles[CanvasPathOf(f.folder, f.dateISO, f.title)]

\* a run resting at the write of the canvas, the other three files on disk
C9_Witness ==
  /\ flows[1].pc = "canvas"
  /\ flows[1].steps = <<"folder", "drawing", "slides", "meta">>
  /\ MetaPathOf(flows[1].folder) \in DOMAIN files
  /\ CanvasPathOf(flows[1].folder, flows[1].dateISO, flows[1].title) \notin DOMAIN files

\* C10: a run that failed has shown the failure notice once and no success
\* notice; the failing step changes no file and no folder and completes no
\* step; the failed run takes no further step.
C10_FailureStops ==
  /\ [](\A p \in PromptIds :
          /\ flows[p].pc = "failed" => notices[p].failure = 1 /\ notices[p].success = 0
          /\ flows[p].pc # "failed" => notices[p].failure = 0)
  /\ [][\A p \in PromptIds :
          /\ flows[p].pc = "failed" => flows'[p] = flows[p] /\ notices'[p] = notices[p]
          /\ (flows[p].pc # "failed" /\ flows'[p].pc = "failed")
               => /\ files' = files
                  /\ folders' = folders
                  /\ flows'[p].steps = flows[p].steps]_vars

\* a run failed at the write of _meta.md: the folder, the drawing and the
\* slides placeholder stay
C10_Witness ==
  /\ flows[1].pc = "failed"
  /\ flows[1].steps = <<"folder", "drawing", "slides">>
  /\ notices[1].failure = 1
  /\ flows[1].folder \in folders
  /\ SlidesPathOf(flows[1].folder) \in DOMAIN files

(***************************************************************************)
(* Claims about runs that share the vault.                                 *)
(***************************************************************************)
\* the write sequence of a submission is in progress
InProgress(f) == f.pc \notin {"idle", "done", "failed"}

\* C11: at most one write sequence is in progress at a time, so that no
\* prompt is submitted while the write sequence of an earlier submission is
\* still in progress.
C11_OneFlowAtATime ==
  \A p, q \in PromptIds :
     (InProgress(flows[p]) /\ InProgress(flows[q])) => p = q

\* C13: at the step that shows the success notice of a run, the file of the
\* drawing node, the file of the slides node and the metadata note of the
\* text node of the canvas the run wrote are files of the vault.
C13_CanvasTargetsExist ==
  [][\A p \in PromptIds :
       notices'[p].success > notices[p].success =>
          LET c == flows'[p].writes[4].text
          IN /\ c.nodes[2].file \in DOMAIN files'
             /\ c.nodes[3].file \in DOMAIN files'
             /\ c.nodes[1].text.metadata \in DOMAIN files']_vars

(* Claims about the command bridge. *)
OpenPatterns ==
  <<"open as excalidraw drawing", "convert markdown note to excalidraw drawing",
    "open existing drawing.*current active pane">>

\* the id of the first registered command among the positions, if any
FirstId(all, positions) ==
  IF positions = {} THEN <<>>
  ELSE <<all[CHOOSE i \in positions : \A j \in positions : i <= j].id>>

ConvertId(all) == FirstId(all, Picks(all, "convert.+new format"))

\* the open patterns tried in their order: the first registered match of the
\* first pattern that has a match
OpenIdInOrder(all) ==
  LET hit == {k \in 1..Len(OpenPatterns) : Picks(all, OpenPatterns[k]) # {}}
  IN IF hit = {} THEN <<>>
     ELSE FirstId(all, Picks(all, OpenPatterns[CHOOSE k \in hit : \A j \in hit : k <= j]))

\* the first registered match of any open pattern
OpenIdOfAny(all) ==
  FirstId(all, UNION {Picks(all, OpenPatterns[k]) : k \in 1..Len(OpenPatterns)})

IsPrefix(s, t) == Len(s) <= Len(t) /\ s = SubSeq(t, 1, Len(s))

PastBridge == {"viewState", "slides", "meta", "canvas", "openCanvas", "done"}

\* a step of a run whose bridge is to execute the commands ids: the executed
\* commands are an initial part of ids, all of ids once the bridge is past;
\* with no id to execute the step that lists the commands goes on to the
\* slides write with no notice, and a finished run made its four writes
BridgeExecutes(p, ids) ==
  LET f == flows'[p]
  IN /\ IsPrefix(f.ran, ids)
     /\ f.pc \in PastBridge => f.ran = ids
     /\ (ids = <<>> /\ flows[p].pc = "openDrawing" /\ f.pc # "failed") =>
           /\ f.pc \in {"openDrawing", "slides"}
           /\ notices' = notices
     /\ f.pc = "done" =>
           /\ Len(f.writes) = 4
           /\ {SlidesPathOf(f.folder), MetaPathOf(f.folder)} \subseteq DOMAIN files'
           /\ f.writes[4].path \in DOMAIN files'

\* C12 (as stated): the bridge executes at most one command per intent, the
\* first registered command of the drawing plugin whose lower-cased name
\* matches a pattern of the intent; when none matches it executes nothing,
\* raises no error, and the slides, metadata and canvas writes take place.
C12_FirstOfAnyPattern ==
  [][\A p \in PromptIds :
       BridgeExecutes(p, ConvertId(commands) \o OpenIdOfAny(commands))]_vars

\* C12 (amended): as above, but for the open intent the three patterns are
\* tried in their order and the executed command is the first registered
\* match of the first pattern that has a match.
C12_BridgeBestEffort ==
  [][\A p \in PromptIds :
       BridgeExecutes(p, ConvertId(commands) \o OpenIdInOrder(commands))]_vars

\* a finished run that executed the convert command and the command of the
\* first open pattern, registered after commands of the other open patterns
C12_Witness ==
  /\ commands = RegistryReordered
  /\ flows[1].pc = "done"
  /\ flows[1].ran = <<TxtPluginId \o ":c", TxtPluginId \o ":o">>

\* a finished run over a registry with no matching command
C12_WitnessUnmatched ==
  /\ commands = RegistryUnmatched
  /\ flows[1].pc = "done"
  /\ flows[1].ran = <<>>
  /\ notices[1].failure = 0

(* Claims about a run repeated on the vault of an earlier run. *)
\* the file paths of the vault in a folder
PathsIn(paths, folder) == {x \in paths : startsWith(x, folder \o "/")}

\* C14: a run submitted after a run of the same course, title and date has
\* shown its success notice (the settings unchanged) does not create the
\* folder again, writes the drawing by modifying the existing file and not by
\* creating one, is not stopped by a file that already exists, and at its
\* success notice the file paths in the folder are those at the success
\* notice of the earlier run.
C14_RerunInPlace ==
  [][\A q \in PromptIds : \A p \in flows'[q].prior :
       SameRequest(flows'[p], flows'[q]) =>
          LET f == flows'[q]
          IN /\ f.pc # "mkdir"
             /\ f.pc = "drawing" => f.op = "modify"
             /\ (flows[q].pc = "drawing" /\ f.pc = "failed") => flows[q].op = "modify"
             /\ notices'[q].success > notices[q].success =>
                   PathsIn(f.after, f.folder) = PathsIn(flows'[p].after, f.folder)]_vars

=============================================================================
